---------------------------- MODULE Spec2Model ----------------------------
(*************************************************************************)
(* Model of HW_7_Bot.py: a console contact book.  Field values (Phone,   *)
(* Birthday), Record, AddressBook with find_next_birthday, the command   *)
(* handlers wrapped by input_error, and the session loop of main() with  *)
(* its pickle load/save.                                                  *)
(*                                                                       *)
(* Strings typed by the user are sequences of characters.  A character   *)
(* is a one-element name: "0".."9", ".", "-", "a", and "sup2" for        *)
(* U+00B2 SUPERSCRIPT TWO, a character for which str.isdigit() is True   *)
(* and str.isdecimal() is False.                                          *)
(*************************************************************************)
EXTENDS Integers, Sequences, FiniteSets, TLC

VARIABLES pc, book, today, blob, reply, upcoming, rec, prev, call, res

vars == <<pc, book, today, blob, reply, upcoming, rec, prev, call, res>>

-----------------------------------------------------------------------------
(* Bounds of the model.                                                    *)

\* most phones one Record holds in the record-level specification
MaxPhones == 3
\* most phones the whole book holds in the session specification
MaxBookPhones == 2

-----------------------------------------------------------------------------
(* Characters and the strings used as inputs.                              *)

AsciiDigits == {"0", "1", "2", "3", "4", "5", "6", "7", "8", "9"}

\* characters c with c.isdigit() but not c.isdecimal()
OtherDigits == {"sup2"}

DigitValue(c) ==
    CASE c = "0" -> 0 [] c = "1" -> 1 [] c = "2" -> 2 [] c = "3" -> 3
      [] c = "4" -> 4 [] c = "5" -> 5 [] c = "6" -> 6 [] c = "7" -> 7
      [] c = "8" -> 8 [] c = "9" -> 9

\* str.isdigit(): non-empty and every character is a digit character
isdigit(s) == Len(s) > 0 /\ \A i \in 1..Len(s) : s[i] \in AsciiDigits \cup OtherDigits

\* a string of decimal digits 0-9 only
IsDecimalString(s) == \A i \in 1..Len(s) : s[i] \in AsciiDigits

P1 == <<"0", "1", "2", "3", "4", "5", "6", "7", "8", "9">>
P2 == [i \in 1..10 |-> "7"]
PSup == [i \in 1..10 |-> "sup2"]
PShort == [i \in 1..9 |-> "1"]
PLong == [i \in 1..11 |-> "1"]
PAlpha == [i \in 1..10 |-> IF i = 10 THEN "a" ELSE "1"]

PhoneTokens == {P1, P2, PSup, PShort, PLong, PAlpha}

Names == {"Ann", "Bob"}

\* a name no record is ever stored under by the modelled inputs
NameTokens == Names \cup {"Zed"}

B_12_06 == <<"1", "2", ".", "0", "6", ".", "1", "9", "9", "0">>
B_15_06 == <<"1", "5", ".", "0", "6", ".", "1", "9", "9", "0">>
B_16_06 == <<"1", "6", ".", "0", "6", ".", "1", "9", "9", "0">>
B_17_06 == <<"1", "7", ".", "0", "6", ".", "1", "9", "9", "0">>
B_20_06 == <<"2", "0", ".", "0", "6", ".", "1", "9", "9", "0">>
B_9_6 == <<"9", ".", "6", ".", "1", "9", "9", "0">>
B_01_01 == <<"0", "1", ".", "0", "1", ".", "2", "0", "0", "0">>
B_29_02 == <<"2", "9", ".", "0", "2", ".", "2", "0", "0", "0">>
B_Iso == <<"1", "9", "9", "0", "-", "0", "6", "-", "1", "2">>
B_31_02 == <<"3", "1", ".", "0", "2", ".", "1", "9", "9", "0">>
B_ShortYear == <<"1", "2", ".", "0", "6", ".", "9", "0">>
B_Alpha == <<"a", "a", ".", "0", "6", ".", "1", "9", "9", "0">>
B_29_02_1990 == <<"2", "9", ".", "0", "2", ".", "1", "9", "9", "0">>

ValidBirthdays == {B_12_06, B_15_06, B_16_06, B_17_06, B_20_06, B_9_6, B_01_01, B_29_02}

InvalidBirthdays == {B_Iso, B_31_02, B_ShortYear, B_Alpha, B_29_02_1990}

\* the birthday strings typed in the session specification
BirthdayTokens == {B_15_06, B_29_02} \cup InvalidBirthdays

\* Python's None where a string is expected
None == <<>>

-----------------------------------------------------------------------------
(* datetime.date: proleptic Gregorian calendar arithmetic.                 *)

Date(y, m, d) == [year |-> y, month |-> m, day |-> d]

\* value of an attribute that was never assigned a date
NoDate == Date(0, 0, 0)

IsLeap(y) == y % 4 = 0 /\ (y % 100 # 0 \/ y % 400 = 0)

DaysInMonth(y, m) ==
    IF m = 2 THEN (IF IsLeap(y) THEN 29 ELSE 28)
    ELSE IF m \in {4, 6, 9, 11} THEN 30 ELSE 31

DaysBeforeYear(y) ==
    LET p == y - 1 IN p * 365 + (p \div 4) - (p \div 100) + (p \div 400)

RECURSIVE DaysBeforeMonth(_, _)
DaysBeforeMonth(y, m) ==
    IF m = 1 THEN 0 ELSE DaysBeforeMonth(y, m - 1) + DaysInMonth(y, m - 1)

\* the checks of the date/datetime constructor (ValueError otherwise)
IsValidDate(y, m, d) ==
    /\ y >= 1 /\ y <= 9999
    /\ m >= 1 /\ m <= 12
    /\ d >= 1 /\ d <= DaysInMonth(y, m)

toordinal(dt) == DaysBeforeYear(dt.year) + DaysBeforeMonth(dt.year, dt.month) + dt.day

\* years the dates computed by the model fall in
Years == 2023..2026

fromordinal(n) ==
    LET y == CHOOSE yy \in Years : DaysBeforeYear(yy) < n /\ n <= DaysBeforeYear(yy + 1)
        m == CHOOSE mm \in 1..12 :
                 /\ DaysBeforeYear(y) + DaysBeforeMonth(y, mm) < n
                 /\ n <= DaysBeforeYear(y) + DaysBeforeMonth(y, mm) + DaysInMonth(y, mm)
    IN  Date(y, m, n - DaysBeforeYear(y) - DaysBeforeMonth(y, m))

\* date.weekday(): Monday is 0, Sunday is 6
weekday(dt) == (toordinal(dt) + 6) % 7

\* the values datetime.today().date() takes in the model
Todays == {Date(2024, 6, 9), Date(2024, 6, 10), Date(2024, 6, 14), Date(2024, 12, 28)}

\* the values it takes in the session specification
SessionTodays == {Date(2024, 6, 9), Date(2024, 6, 10)}

RECURSIVE SplitDot(_)
\* str.split("."): the fields between the dots
SplitDot(s) ==
    IF s = <<>> THEN << <<>> >>
    ELSE LET r == SplitDot(Tail(s)) IN
         IF Head(s) = "." THEN << <<>> >> \o r
         ELSE << <<Head(s)>> \o Head(r) >> \o Tail(r)

RECURSIVE ToInt(_)
ToInt(s) == IF s = <<>> THEN 0 ELSE 10 * ToInt(SubSeq(s, 1, Len(s) - 1)) + DigitValue(s[Len(s)])

\* datetime.strptime(value, "%d.%m.%Y").date(): ok is FALSE where it raises ValueError
strptime(s) ==
    LET f == SplitDot(s) IN
    IF /\ Len(f) = 3
       /\ \A i \in 1..3 : Len(f[i]) > 0 /\ IsDecimalString(f[i])
       /\ Len(f[1]) \in 1..2 /\ Len(f[2]) \in 1..2 /\ Len(f[3]) = 4
       /\ ToInt(f[1]) \in 1..31 /\ ToInt(f[2]) \in 1..12
       /\ IsValidDate(ToInt(f[3]), ToInt(f[2]), ToInt(f[1]))
    THEN [ok |-> TRUE, date |-> Date(ToInt(f[3]), ToInt(f[2]), ToInt(f[1]))]
    ELSE [ok |-> FALSE, date |-> NoDate]

\* date.strftime("%Y.%m.%d"): the digits of the zero-padded text
strftime(dt) ==
    << (dt.year \div 1000) % 10, (dt.year \div 100) % 10, (dt.year \div 10) % 10, dt.year % 10, ".",
       (dt.month \div 10) % 10, dt.month % 10, ".", (dt.day \div 10) % 10, dt.day % 10 >>

-----------------------------------------------------------------------------
(* Exceptions and messages.                                                *)

NoExc == [type |-> "", msg |-> ""]

Raise(t, m) == [type |-> t, msg |-> m]

MsgInvalidPhone == "Invalid phone number"
MsgDateFormat == "Incorrect date format, please enter in the format: dd.mm.yyyy"
MsgOldNotFound == "Old phone number not found in the contact's phones."
MsgNotFound == "Contact not found."
MsgDayOutOfRange == "day is out of range for month"
MsgAddArgs == "Insufficient arguments. Required: name and phone number."
MsgChangeArgs == "Insufficient arguments. Required: name, old phone number, and new phone number."
MsgPhoneArgs == "Insufficient arguments. Required: name."
MsgBirthdayArgs == "Insufficient arguments. Required: name and birthday."
MsgAdded == "Contact added."
MsgUpdated == "Contact updated."
MsgPhoneUpdated == "Phone number updated successfully."
MsgBirthdaySet == "Birthday added/updated successfully."
MsgHello == "How can I help you?"
MsgInvalidCommand == "Invalid command."
MsgWelcome == "Welcome to the address book bot!"
MsgGoodBye == "Good bye!"

-----------------------------------------------------------------------------
(* Field values.                                                           *)

\* Phone.value setter: the test that guards the assignment
PhoneAccepts(value) == Len(value) = 10 /\ isdigit(value)

\* Phone(value): the stored string, or ValueError
Phone(value) ==
    IF PhoneAccepts(value) THEN [value |-> value, exc |-> NoExc]
    ELSE [value |-> None, exc |-> Raise("ValueError", MsgInvalidPhone)]

\* Birthday(value): the field keeps the text it was given, or ValueError
Birthday(value) ==
    IF strptime(value).ok THEN [value |-> value, exc |-> NoExc]
    ELSE [value |-> None, exc |-> Raise("ValueError", MsgDateFormat)]

-----------------------------------------------------------------------------
(* Record: name, list of phones, optional birthday.  A method yields the   *)
(* record as the call leaves it and the exception the call raised.         *)

Record(name) == [name |-> name, phones |-> <<>>, birthday |-> None]

add_phone(r, phone_number) ==
    LET p == Phone(phone_number) IN
    IF p.exc # NoExc THEN [rec |-> r, exc |-> p.exc]
    ELSE [rec |-> [r EXCEPT !.phones = Append(@, p.value)], exc |-> NoExc]

RECURSIVE Comprehension(_, _)
\* [p for p in phones if str(p) != phone_number]
Comprehension(phones, phone_number) ==
    IF phones = <<>> THEN <<>>
    ELSE IF Head(phones) # phone_number
         THEN <<Head(phones)>> \o Comprehension(Tail(phones), phone_number)
         ELSE Comprehension(Tail(phones), phone_number)

RECURSIVE RemoveFirst(_, _)
RemoveFirst(phones, phone_number) ==
    IF phones = <<>> THEN <<>>
    ELSE IF Head(phones) = phone_number THEN Tail(phones)
         ELSE <<Head(phones)>> \o RemoveFirst(Tail(phones), phone_number)

\* variant of remove_phone: list.remove semantics, only the first equal
\* phone goes
remove_phone_first_match(r, phone_number) ==
    [rec |-> [r EXCEPT !.phones = RemoveFirst(r.phones, phone_number)], exc |-> NoExc]

remove_phone(r, phone_number) ==
    [rec |-> [r EXCEPT !.phones = Comprehension(r.phones, phone_number)], exc |-> NoExc]

RECURSIVE EditLoop(_, _, _, _)
\* the for loop of edit_phone from index i on: every phone equal to old_phone
\* is assigned Phone(new_phone); the constructor's ValueError leaves the loop
EditLoop(phones, i, old_phone, new_phone) ==
    IF i > Len(phones) THEN [phones |-> phones, exc |-> NoExc]
    ELSE IF phones[i] = old_phone
         THEN LET p == Phone(new_phone) IN
              IF p.exc # NoExc THEN [phones |-> phones, exc |-> p.exc]
              ELSE EditLoop([phones EXCEPT ![i] = p.value], i + 1, old_phone, new_phone)
         ELSE EditLoop(phones, i + 1, old_phone, new_phone)

\* the test after the loop reads the loop variable: the object that was last
\* in the list when the loop ran, unbound when the list was empty
AfterLoop(phones, old_phone) ==
    IF Len(phones) = 0 THEN Raise("UnboundLocalError", "phone")
    ELSE IF phones[Len(phones)] # old_phone THEN Raise("ValueError", MsgOldNotFound)
    ELSE NoExc

edit_phone(r, old_phone, new_phone) ==
    LET l == EditLoop(r.phones, 1, old_phone, new_phone) IN
    IF l.exc # NoExc THEN [rec |-> [r EXCEPT !.phones = l.phones], exc |-> l.exc]
    ELSE [rec |-> [r EXCEPT !.phones = l.phones], exc |-> AfterLoop(r.phones, old_phone)]

\* find_phone: the first phone equal to the argument, or None
find_phone(r, phone) ==
    IF \E i \in 1..Len(r.phones) : r.phones[i] = phone
    THEN r.phones[CHOOSE i \in 1..Len(r.phones) :
                     r.phones[i] = phone /\ \A j \in 1..(i - 1) : r.phones[j] # phone]
    ELSE None

Record_add_birthday(r, birthday) ==
    LET b == Birthday(birthday) IN
    IF b.exc # NoExc THEN [rec |-> r, exc |-> b.exc]
    ELSE [rec |-> [r EXCEPT !.birthday = b.value], exc |-> NoExc]

-----------------------------------------------------------------------------
(* AddressBook: the dict `data` in insertion order, as a sequence of       *)
(* records with distinct names.                                            *)

HasName(data, name) == \E i \in 1..Len(data) : data[i].name = name

IndexOf(data, name) == CHOOSE i \in 1..Len(data) : data[i].name = name

\* what find() yields for a name that is not a key: Python's None
NoRecord == [name |-> "", phones |-> <<>>, birthday |-> None]

\* AddressBook.find: data.get(name)
find(data, name) == IF HasName(data, name) THEN data[IndexOf(data, name)] ELSE NoRecord

\* AddressBook.add_record: data[record.name.value] = record
add_record(data, r) ==
    IF HasName(data, r.name) THEN [data EXCEPT ![IndexOf(data, r.name)] = r]
    ELSE Append(data, r)

\* the record stored under a name is a shared object: a change made through
\* the reference find() returned is a change of the book
Store(data, r) == [data EXCEPT ![IndexOf(data, r.name)] = r]

\* lines 98-101: this year's date of the birthday, next year's when this
\* year's is before today; datetime() raises ValueError for 29 February of
\* a year that is not a leap year
birthday_this_year(t, birthday_date) ==
    IF ~IsValidDate(t.year, birthday_date.month, birthday_date.day)
    THEN [date |-> NoDate, exc |-> Raise("ValueError", MsgDayOutOfRange)]
    ELSE IF toordinal(Date(t.year, birthday_date.month, birthday_date.day)) < toordinal(t)
         THEN IF ~IsValidDate(t.year + 1, birthday_date.month, birthday_date.day)
              THEN [date |-> NoDate, exc |-> Raise("ValueError", MsgDayOutOfRange)]
              ELSE [date |-> Date(t.year + 1, birthday_date.month, birthday_date.day), exc |-> NoExc]
         ELSE [date |-> Date(t.year, birthday_date.month, birthday_date.day), exc |-> NoExc]

\* line 105
InWindow(days_until_birthday) == 0 <= days_until_birthday /\ days_until_birthday <= 7

\* variant of congrats_date: the Monday counted from the birthday
congrats_date_from_birthday(t, bty) ==
    IF weekday(bty) >= 5
    THEN fromordinal(toordinal(bty) + (7 - weekday(bty)))
    ELSE bty

\* lines 106-110
congrats_date(t, bty) ==
    IF weekday(bty) >= 5
    THEN fromordinal(toordinal(t) + (7 - weekday(t)))
    ELSE bty

RECURSIVE BirthdayLoop(_, _, _)
\* the for loop of find_next_birthday over data.values()
BirthdayLoop(users, t, upcoming_birthdays) ==
    IF users = <<>> THEN [value |-> upcoming_birthdays, exc |-> NoExc]
    ELSE LET user == Head(users) IN
         IF user.birthday = None
         THEN [value |-> <<>>, exc |-> Raise("AttributeError", "value")]
         ELSE LET bty == birthday_this_year(t, strptime(user.birthday).date) IN
              IF bty.exc # NoExc THEN [value |-> <<>>, exc |-> bty.exc]
              ELSE IF InWindow(toordinal(bty.date) - toordinal(t))
                   THEN BirthdayLoop(Tail(users), t,
                            Append(upcoming_birthdays,
                                   [name |-> user.name,
                                    congratulation_date |-> strftime(congrats_date(t, bty.date))]))
                   ELSE BirthdayLoop(Tail(users), t, upcoming_birthdays)

\* AddressBook.find_next_birthday with datetime.today().date() = t
find_next_birthday(data, t) == BirthdayLoop(data, t, <<>>)

-----------------------------------------------------------------------------
(* Command handlers.  A handler yields the book as the call leaves it, the *)
(* text it returns and the exception it raised.                            *)

Text(m) == [msg |-> m, body |-> <<>>]

\* the text of a listing: '\n'.join / ', '.join of the items
Listing(items) == [msg |-> "", body |-> items]

Return(data, r) == [data |-> data, ret |-> r, exc |-> NoExc]

Throw(data, e) == [data |-> data, ret |-> Text(""), exc |-> e]

\* the decorator: KeyError and ValueError become the returned text, any
\* other exception leaves the wrapper
input_error(r) ==
    IF r.exc.type = "KeyError" THEN Return(r.data, Text(MsgNotFound))
    ELSE IF r.exc.type = "ValueError" THEN Return(r.data, Text(r.exc.msg))
    ELSE r

add_contact(args, data) ==
    input_error(
        IF Len(args) < 2 THEN Return(data, Text(MsgAddArgs))
        ELSE LET name == args[1]
                 phone == args[2]
                 isNew == find(data, name) = NoRecord
                 data1 == IF isNew THEN add_record(data, Record(name)) ELSE data
                 a == add_phone(find(data1, name), phone)
             IN  IF a.exc # NoExc THEN Throw(data1, a.exc)
                 ELSE Return(Store(data1, a.rec), Text(IF isNew THEN MsgAdded ELSE MsgUpdated)))

change_contact(args, data) ==
    input_error(
        IF Len(args) < 3 THEN Return(data, Text(MsgChangeArgs))
        ELSE LET name == args[1]
                 record == find(data, name)
             IN  IF record # NoRecord
                 THEN LET e == edit_phone(record, args[2], args[3]) IN
                      IF e.exc # NoExc THEN Throw(Store(data, e.rec), e.exc)
                      ELSE Return(Store(data, e.rec), Text(MsgPhoneUpdated))
                 ELSE Throw(data, Raise("KeyError", MsgNotFound)))

show_phones(args, data) ==
    input_error(
        IF Len(args) = 0 THEN Return(data, Text(MsgPhoneArgs))
        ELSE LET record == find(data, args[1]) IN
             IF record # NoRecord THEN Return(data, Listing(record.phones))
             ELSE Throw(data, Raise("KeyError", MsgNotFound)))

show_all(data) == input_error(Return(data, Listing(data)))

add_birthday(args, data) ==
    input_error(
        IF Len(args) < 2 THEN Return(data, Text(MsgBirthdayArgs))
        ELSE LET record == find(data, args[1]) IN
             IF record # NoRecord
             THEN LET b == Record_add_birthday(record, args[2]) IN
                  IF b.exc # NoExc THEN Throw(data, b.exc)
                  ELSE Return(Store(data, b.rec), Text(MsgBirthdaySet))
             ELSE Throw(data, Raise("KeyError", MsgNotFound)))

show_birthday(args, data) ==
    input_error(
        IF Len(args) = 0 THEN Throw(data, Raise("IndexError", "list index out of range"))
        ELSE LET record == find(data, args[1]) IN
             IF record # NoRecord /\ record.birthday # None
             THEN Return(data, Listing(<<args[1], record.birthday>>))
             ELSE Throw(data, Raise("KeyError", "Contact not found or birthday not set.")))

birthdays(args, data, t) ==
    input_error(
        LET u == find_next_birthday(data, t) IN
        IF u.exc # NoExc THEN Throw(data, u.exc) ELSE Return(data, Listing(u.value)))

-----------------------------------------------------------------------------
(* Persistence: pickle of the AddressBook object.  The pickle holds, per   *)
(* object, its class and its instance dictionary; loading rebuilds the     *)
(* objects from the dictionaries without running a constructor.            *)

\* variant of PickleRecord: the birthday attribute is left out
PickleRecord_without_birthday(r) ==
    <<"Record",
      <<"Name", r.name>>,
      [i \in 1..Len(r.phones) |-> <<"Phone", "_Phone__value", r.phones[i]>>],
      <<"None">> >>

PickleRecord(r) ==
    <<"Record",
      <<"Name", r.name>>,
      [i \in 1..Len(r.phones) |-> <<"Phone", "_Phone__value", r.phones[i]>>],
      IF r.birthday = None THEN <<"None">> ELSE <<"Birthday", r.birthday>> >>

UnpickleRecord(o) ==
    [name |-> o[2][2],
     phones |-> [i \in 1..Len(o[3]) |-> o[3][i][3]],
     birthday |-> IF o[4][1] = "None" THEN None ELSE o[4][2]]

\* pickle.dump(book, f): `today` is in the instance dictionary once
\* find_next_birthday has run
pickle_dump(data, t) ==
    <<"AddressBook",
      [i \in 1..Len(data) |-> PickleRecord(data[i])],
      IF t = NoDate THEN <<>> ELSE <<t>> >>

pickle_load(bytes) ==
    [data |-> [i \in 1..Len(bytes[2]) |-> UnpickleRecord(bytes[2][i])],
     today |-> IF bytes[3] = <<>> THEN NoDate ELSE bytes[3][1]]

NoFile == [exists |-> FALSE, bytes |-> <<>>]

save_data(data, t) == [exists |-> TRUE, bytes |-> pickle_dump(data, t)]

\* load_data: FileNotFoundError yields AddressBook()
load_data(file) ==
    IF file.exists THEN pickle_load(file.bytes) ELSE [data |-> <<>>, today |-> NoDate]

-----------------------------------------------------------------------------
(* The session: main().  A line typed at the prompt is the sequence of its *)
(* whitespace-separated words.                                             *)

\* str.lower() of the command words the model types
lower(w) ==
    CASE w = "ADD" -> "add" [] w = "Exit" -> "exit" [] OTHER -> w

parse_input(parts) ==
    [cmd |-> IF Len(parts) > 0 THEN lower(parts[1]) ELSE "",
     args |-> IF Len(parts) > 1 THEN Tail(parts) ELSE <<>>]

CloseLines == {<<"close">>, <<"exit">>, <<"Exit">>}

HelloLines == {<<"hello">>}

AddLines ==
    {<<"add">>, <<"add", "Ann">>, <<"ADD", "Ann", P1, P2>>}
        \cup {<<"add", n, p>> : n \in Names, p \in PhoneTokens}

ChangeLines ==
    {<<"change">>, <<"change", "Ann", P1>>}
        \cup {<<"change", n, o, p>> : n \in NameTokens, o \in {P1, P2, PSup}, p \in {P1, P2, PShort, PAlpha}}

PhoneLines == {<<"phone">>} \cup {<<"phone", n>> : n \in NameTokens}

AllLines == {<<"all">>}

AddBirthdayLines ==
    {<<"add-birthday">>, <<"add-birthday", "Ann">>}
        \cup {<<"add-birthday", n, b>> : n \in NameTokens, b \in BirthdayTokens}

ShowBirthdayLines == {<<"show-birthday">>} \cup {<<"show-birthday", n>> : n \in NameTokens}

BirthdaysLines == {<<"birthdays">>}

OtherLines == {<<>>, <<"remove">>, <<"delete", "Ann">>}

RECURSIVE TotalPhones(_)
TotalPhones(data) ==
    IF data = <<>> THEN 0 ELSE Len(Head(data).phones) + TotalPhones(Tail(data))

\* what is printed for an exception that leaves main()
Traceback(e) == [msg |-> "Traceback", body |-> <<e.type>>]

\* the rest of a loop iteration after a handler returned r: print the text
\* and save_data(book); an exception that left the handler ends main()
\* before the print and before the save
Iteration(r, t) ==
    /\ book' = r.data
    /\ today' = t
    /\ IF r.exc = NoExc
       THEN /\ pc' = "prompt"
            /\ reply' = r.ret
            /\ blob' = save_data(r.data, t)
       ELSE /\ pc' = "crashed"
            /\ reply' = Traceback(r.exc)
            /\ blob' = blob
    /\ UNCHANGED <<upcoming, rec, prev, call, res>>

\* lines 222-224: a process starts, load_data(), welcome
Main ==
    /\ pc \in {"start", "closed", "crashed"}
    /\ pc' = "prompt"
    /\ book' = load_data(blob).data
    /\ today' = load_data(blob).today
    /\ reply' = Text(MsgWelcome)
    /\ UNCHANGED <<blob, upcoming, rec, prev, call, res>>

\* lines 229-231: break, without a save
Close ==
    /\ pc = "prompt"
    /\ \E line \in CloseLines :
          /\ parse_input(line).cmd \in {"close", "exit"}
          /\ pc' = "closed"
          /\ reply' = Text(MsgGoodBye)
    /\ UNCHANGED <<book, today, blob, upcoming, rec, prev, call, res>>

Hello ==
    /\ pc = "prompt"
    /\ \E line \in HelloLines :
          /\ parse_input(line).cmd = "hello"
          /\ Iteration(Return(book, Text(MsgHello)), today)

Add ==
    /\ pc = "prompt"
    /\ \E line \in AddLines :
          LET in == parse_input(line) IN
          /\ in.cmd = "add"
          /\ (Len(in.args) >= 2 /\ PhoneAccepts(in.args[2])) => TotalPhones(book) < MaxBookPhones
          /\ Iteration(add_contact(in.args, book), today)

Change ==
    /\ pc = "prompt"
    /\ \E line \in ChangeLines :
          LET in == parse_input(line) IN
          /\ in.cmd = "change"
          /\ Iteration(change_contact(in.args, book), today)

ShowPhones ==
    /\ pc = "prompt"
    /\ \E line \in PhoneLines :
          LET in == parse_input(line) IN
          /\ in.cmd = "phone"
          /\ Iteration(show_phones(in.args, book), today)

ShowAll ==
    /\ pc = "prompt"
    /\ \E line \in AllLines :
          /\ parse_input(line).cmd = "all"
          /\ Iteration(show_all(book), today)

AddBirthday ==
    /\ pc = "prompt"
    /\ \E line \in AddBirthdayLines :
          LET in == parse_input(line) IN
          /\ in.cmd = "add-birthday"
          /\ Iteration(add_birthday(in.args, book), today)

ShowBirthday ==
    /\ pc = "prompt"
    /\ \E line \in ShowBirthdayLines :
          LET in == parse_input(line) IN
          /\ in.cmd = "show-birthday"
          /\ Iteration(show_birthday(in.args, book), today)

\* find_next_birthday assigns self.today before anything can fail
Birthdays ==
    /\ pc = "prompt"
    /\ \E line \in BirthdaysLines, t \in SessionTodays :
          LET in == parse_input(line) IN
          /\ in.cmd = "birthdays"
          /\ Iteration(birthdays(in.args, book, t), t)

InvalidCommand ==
    /\ pc = "prompt"
    /\ \E line \in OtherLines :
          /\ parse_input(line).cmd \notin {"close", "exit", "hello", "add", "change", "phone",
                                           "all", "add-birthday", "show-birthday", "birthdays"}
          /\ Iteration(Return(book, Text(MsgInvalidCommand)), today)

NoCall == [op |-> "", args |-> <<>>]

NoResult == [value |-> <<>>, exc |-> NoExc]

Init ==
    /\ pc = "start"
    /\ book = <<>>
    /\ today = NoDate
    /\ blob = NoFile
    /\ reply = Text("")
    /\ upcoming = NoResult
    /\ rec = Record("Ann")
    /\ prev = Record("Ann")
    /\ call = NoCall
    /\ res = NoResult

Next ==
    \/ Main
    \/ Close
    \/ Hello
    \/ Add
    \/ Change
    \/ ShowPhones
    \/ ShowAll
    \/ AddBirthday
    \/ ShowBirthday
    \/ Birthdays
    \/ InvalidCommand

Spec == Init /\ [][Next]_vars

-----------------------------------------------------------------------------
(* Record-level specification: the methods of one Record called directly.  *)
(* prev is the record before the last call, call the method and its        *)
(* arguments, res what it returned or raised.                              *)

Called(out, value) ==
    /\ prev' = rec
    /\ rec' = out.rec
    /\ res' = [value |-> value, exc |-> out.exc]
    /\ UNCHANGED <<pc, book, today, blob, reply, upcoming>>

RecordAddPhone ==
    \E p \in PhoneTokens :
        /\ PhoneAccepts(p) => Len(rec.phones) < MaxPhones
        /\ call' = [op |-> "add_phone", args |-> <<p>>]
        /\ Called(add_phone(rec, p), None)

RecordRemovePhone ==
    \E p \in PhoneTokens :
        /\ call' = [op |-> "remove_phone", args |-> <<p>>]
        /\ Called(remove_phone(rec, p), None)

RecordEditPhone ==
    \E o \in PhoneTokens, n \in PhoneTokens :
        /\ call' = [op |-> "edit_phone", args |-> <<o, n>>]
        /\ Called(edit_phone(rec, o, n), None)

RecordFindPhone ==
    \E p \in PhoneTokens :
        /\ call' = [op |-> "find_phone", args |-> <<p>>]
        /\ Called([rec |-> rec, exc |-> NoExc], find_phone(rec, p))

RecordAddBirthday ==
    \E b \in BirthdayTokens :
        /\ call' = [op |-> "add_birthday", args |-> <<b>>]
        /\ Called(Record_add_birthday(rec, b), None)

NextRecord ==
    \/ RecordAddPhone
    \/ RecordRemovePhone
    \/ RecordEditPhone
    \/ RecordFindPhone
    \/ RecordAddBirthday

SpecRecord == Init /\ [][NextRecord]_vars

-----------------------------------------------------------------------------
(* Birthday specification: find_next_birthday applied to a book and a day. *)

RecordsNamed(n) ==
    {[name |-> n, phones |-> <<P1>>, birthday |-> b] : b \in ValidBirthdays \cup {None}}

\* books of up to two records, each with a birthday or without one
BirthdayBooks ==
    {<<>>}
        \cup {<<r>> : r \in RecordsNamed("Ann") \cup RecordsNamed("Bob")}
        \cup {<<r1, r2>> : r1 \in RecordsNamed("Ann"), r2 \in RecordsNamed("Bob")}
        \cup {<<r2, r1>> : r1 \in RecordsNamed("Ann"), r2 \in RecordsNamed("Bob")}

InitBirthdays ==
    /\ pc = "prompt"
    /\ book \in BirthdayBooks
    /\ today = NoDate
    /\ blob = NoFile
    /\ reply = Text("")
    /\ upcoming = NoResult
    /\ rec = Record("Ann")
    /\ prev = Record("Ann")
    /\ call = NoCall
    /\ res = NoResult

FindNextBirthday ==
    \E t \in Todays :
        /\ today' = t
        /\ upcoming' = find_next_birthday(book, t)
        /\ call' = [op |-> "find_next_birthday", args |-> <<>>]
        /\ UNCHANGED <<pc, book, blob, reply, rec, prev, res>>

NextBirthdays == FindNextBirthday

SpecBirthdays == InitBirthdays /\ [][NextBirthdays]_vars

-----------------------------------------------------------------------------
(* Properties.                                                             *)

ErrorMessages ==
    {MsgInvalidPhone, MsgDateFormat, MsgNotFound, MsgOldNotFound,
     MsgAddArgs, MsgChangeArgs, MsgPhoneArgs, MsgBirthdayArgs}

\* C1: every line typed at the prompt other than close/exit yields a printed
\* message and the loop prompts again; no exception ends the session.
C1_NoFatalError ==
    [][(pc = "prompt" /\ pc' # "closed") => (pc' = "prompt" /\ reply'.msg # "Traceback")]_vars

Occurs(phones, p) == \E i \in 1..Len(phones) : phones[i] = p

\* C2: edit_phone(old, new) with a valid new number succeeds when some phone
\* of the record equals old, wherever it is in the list, and raises the
\* 'old phone number not found' ValueError when no phone equals old, the
\* empty list included.
C2_EditOutcome ==
    (call.op = "edit_phone" /\ PhoneAccepts(call.args[2])) =>
        IF Occurs(prev.phones, call.args[1])
        THEN res.exc = NoExc
        ELSE res.exc = Raise("ValueError", MsgOldNotFound)

FirstIndex(phones, p) ==
    CHOOSE i \in 1..Len(phones) : phones[i] = p /\ \A j \in 1..(i - 1) : phones[j] # p

\* C6: edit_phone(old, new) with a valid new number on a record holding old
\* replaces only the first phone equal to old; every other position, later
\* phones equal to old included, keeps its value, and the length and order
\* of the list are unchanged.
C6_EditFirstOnly ==
    (call.op = "edit_phone" /\ PhoneAccepts(call.args[2]) /\ Occurs(prev.phones, call.args[1])) =>
        rec.phones = [prev.phones EXCEPT ![FirstIndex(prev.phones, call.args[1])] = call.args[2]]

StoredPhonesDecimal ==
    \A i \in 1..Len(book) : \A k \in 1..Len(book[i].phones) :
        Len(book[i].phones[k]) = 10 /\ IsDecimalString(book[i].phones[k])

PhonesOf(data, n) == IF HasName(data, n) THEN find(data, n).phones ELSE <<>>

\* C7: in every state of the session every stored phone is a string of
\* exactly 10 decimal digits, and a command refused with 'Invalid phone
\* number' stores no phone.
C7_PhonesAreTenDecimalDigits ==
    /\ []StoredPhonesDecimal
    /\ [][(pc = "prompt" /\ reply'.msg = MsgInvalidPhone) =>
             \A n \in Names : PhonesOf(book', n) = PhonesOf(book, n)]_vars

\* C8: whenever the loop prompts (and after it has ended), loading the
\* persisted file, a missing file counting as the empty book, yields the
\* book in memory: same names, same phones in the same order, same
\* birthdays.
C8_BlobMatchesBook ==
    pc \in {"prompt", "closed", "crashed"} => load_data(blob).data = book

C8_Witness ==
    /\ pc = "prompt"
    /\ blob.exists
    /\ Len(book) = 2
    /\ TotalPhones(book) = 2
    /\ \E i \in 1..2 : book[i].birthday # None
    /\ \E i \in 1..2 : book[i].birthday = None

Kept(phones, x) == {i \in 1..Len(phones) : phones[i] # x}

\* C9: remove_phone(x) never raises and leaves exactly the phones that differ
\* from x, in their original relative order; a second remove_phone(x) changes
\* nothing.
C9_RemovePhone ==
    call.op = "remove_phone" =>
        LET x == call.args[1]
            keep == Kept(prev.phones, x)
        IN  /\ res.exc = NoExc
            /\ Len(rec.phones) = Cardinality(keep)
            /\ \A i \in keep : rec.phones[Cardinality({j \in keep : j <= i})] = prev.phones[i]
            /\ rec.name = prev.name /\ rec.birthday = prev.birthday
            /\ remove_phone(rec, x).rec = rec

C9_Witness ==
    /\ call.op = "remove_phone"
    /\ Len(prev.phones) = 3
    /\ Cardinality(Kept(prev.phones, call.args[1])) = 1
    /\ prev.phones[2] # call.args[1]
    /\ Len(rec.phones) = 1

\* C10: a command answered with an error message leaves the address book as
\* it was: no record created or removed, no phone or birthday changed.
C10_ErrorLeavesBook ==
    [][(pc = "prompt" /\ pc' = "prompt" /\ reply'.msg \in ErrorMessages) => book' = book]_vars

MonthDay(dt) == <<dt.month, dt.day>>

Window(t) == toordinal(t)..(toordinal(t) + 7)

\* the birthday's month and day fall on one of today .. today + 7
HasOccurrence(t, b) ==
    \E n \in Window(t) : MonthDay(fromordinal(n)) = MonthDay(strptime(b).date)

Occurrence(t, b) ==
    fromordinal(CHOOSE n \in Window(t) : MonthDay(fromordinal(n)) = MonthDay(strptime(b).date))

ExpectedNames(data, t) ==
    {data[i].name : i \in {j \in 1..Len(data) :
                              data[j].birthday # None /\ HasOccurrence(t, data[j].birthday)}}

NoLeapDay(data) ==
    \A i \in 1..Len(data) :
        data[i].birthday = None \/ MonthDay(strptime(data[i].birthday).date) # <<2, 29>>

\* C3: for any today and any book (29 February birthdays aside), the names
\* find_next_birthday returns are exactly the records with a birthday whose
\* next occurrence is 0 to 7 days after today, one entry each; records
\* without a birthday are skipped.
C3_UpcomingNames ==
    (call.op = "find_next_birthday" /\ NoLeapDay(book)) =>
        /\ upcoming.exc = NoExc
        /\ Len(upcoming.value) = Cardinality(ExpectedNames(book, today))
        /\ {upcoming.value[i].name : i \in 1..Len(upcoming.value)} = ExpectedNames(book, today)

EntryOccurrence(e) == Occurrence(today, find(book, e.name).birthday)

\* C4: an entry whose occurrence falls on a Saturday or Sunday carries the
\* Monday following that occurrence (2 days after a Saturday, 1 day after a
\* Sunday), never a day before the birthday.
C4_FollowingMonday ==
    call.op = "find_next_birthday" =>
        \A i \in 1..Len(upcoming.value) :
            LET occ == EntryOccurrence(upcoming.value[i]) IN
            weekday(occ) >= 5 =>
                upcoming.value[i].congratulation_date =
                    strftime(fromordinal(toordinal(occ) + (IF weekday(occ) = 5 THEN 2 ELSE 1)))

\* C5: an entry carries the occurrence itself when it falls Monday to Friday,
\* and today + (7 - weekday(today)) days when it falls on Saturday or Sunday.
C5_CongratulationDate ==
    call.op = "find_next_birthday" =>
        \A i \in 1..Len(upcoming.value) :
            /\ find(book, upcoming.value[i].name).birthday # None
            /\ HasOccurrence(today, find(book, upcoming.value[i].name).birthday)
            /\ LET occ == EntryOccurrence(upcoming.value[i]) IN
               upcoming.value[i].congratulation_date =
                   strftime(IF weekday(occ) \in 0..4 THEN occ
                            ELSE fromordinal(toordinal(today) + (7 - weekday(today))))

\* a Saturday birthday in the week after today's, next to a weekday one
C5_Witness ==
    /\ call.op = "find_next_birthday"
    /\ Len(upcoming.value) = 2
    /\ \E i \in 1..2 : /\ weekday(EntryOccurrence(upcoming.value[i])) >= 5
                       /\ toordinal(EntryOccurrence(upcoming.value[i])) - toordinal(today) >= 6
    /\ \E i \in 1..2 : weekday(EntryOccurrence(upcoming.value[i])) < 5

=============================================================================
